---------------------------- MODULE Spec2Model ----------------------------
(***************************************************************************)
(* Model of src/chatbot.py: the question -> SQL -> execution -> rendering  *)
(* pipeline, its desktop front end (a Tk callback that re-enters the event *)
(* loop while it types text out) and its HTTP front end (request threads   *)
(* sharing one sqlite3 connection).                                        *)
(*                                                                         *)
(* Text is a sequence of tokens.  A token stands for a run of characters   *)
(* that the code never looks inside: the three-backtick fence marker, the *)
(* info string "sql", one blank, one line break, or the text of one SQL   *)
(* statement.                                                              *)
(***************************************************************************)
EXTENDS Integers, Sequences, FiniteSets, TLC

VARIABLES
    store,       \* rows of table AdSales as seen through the shared connection `conn`
    entry,       \* text held by the question_entry widget
    transcript,  \* what has been inserted into result_text, in order
    plotFrame,   \* children of plot_frame, in packing order
    stack,       \* activations of ask_question on the Tk thread, innermost last
    finished,    \* desktop submissions that have ended, in order of ending
    nextSub,     \* number of the next desktop submission
    http,        \* per HTTP worker thread: the api_ask activation it runs
    unit         \* a single call of question_to_sql or execute_sql/plot_if_possible on chosen input

vars == <<store, entry, transcript, plotFrame, stack, finished, nextSub, http, unit>>

---------------------------------------------------------------------------
(* Bounds of the model *)

MaxRespLen == 5     \* tokens in a generation response (unit run of question_to_sql)
MaxQueryLen == 2    \* tokens in a query text (unit run of execute_sql)
MaxRequests == 2    \* questions put to the program in one run, over both front ends

---------------------------------------------------------------------------
(* Tokens *)

FENCE == "BACKTICKx3"        \* the three-backtick fence marker (a backtick cannot be written in a string here)
TAG == "sql"
SP == " "
NL == "\n"

SelChart == "SELECT date, ad_sales FROM AdSales"
SelOne == "SELECT ad_sales FROM AdSales"
SelText == "SELECT item_id, date FROM AdSales"
SelAll == "SELECT * FROM AdSales"
SelNone == "SELECT date, ad_sales FROM AdSales WHERE 0"
Bad == "SELEKT * FROM AdSales"
NoTable == "SELECT x FROM Nope"
Del == "DELETE FROM AdSales"

StatementTexts == {SelChart, SelOne, SelText, SelAll, SelNone, Bad, NoTable, Del}

---------------------------------------------------------------------------
(* str.strip, str.startswith, str.splitlines, str.join *)

IsSpace(c) == c \in {SP, NL}

RECURSIVE LStrip(_)
LStrip(s) ==
    IF s = <<>> THEN s
    ELSE IF IsSpace(Head(s)) THEN LStrip(Tail(s)) ELSE s

RECURSIVE RStrip(_)
RStrip(s) ==
    IF s = <<>> THEN s
    ELSE IF IsSpace(s[Len(s)]) THEN RStrip(SubSeq(s, 1, Len(s) - 1)) ELSE s

Strip(s) == RStrip(LStrip(s))

StartsWithFence(s) == s # <<>> /\ s[1] = FENCE

FirstBreak(s) ==
    IF \E i \in 1..Len(s) : s[i] = NL
    THEN CHOOSE i \in 1..Len(s) : s[i] = NL /\ \A j \in 1..(i - 1) : s[j] # NL
    ELSE 0

RECURSIVE SplitLines(_)
SplitLines(s) ==
    IF s = <<>> THEN <<>>
    ELSE LET i == FirstBreak(s) IN
         IF i = 0 THEN <<s>>
         ELSE <<SubSeq(s, 1, i - 1)>> \o SplitLines(SubSeq(s, i + 1, Len(s)))

RECURSIVE JoinLines(_)
JoinLines(ls) ==
    IF ls = <<>> THEN <<>>
    ELSE IF Len(ls) = 1 THEN ls[1]
    ELSE ls[1] \o <<NL>> \o JoinLines(Tail(ls))

---------------------------------------------------------------------------
(* question_to_sql, lines 60-63: what is done to response.text *)

KeepLineUnlessPureMarker(line) ==
    LET t == Strip(line) IN
    ~(t # <<>> /\ t[1] = FENCE /\ \A i \in 1..Len(t) : t[i] \in {FENCE, TAG, SP})

KeepLine(line) == ~StartsWithFence(Strip(line))

question_to_sql(text) ==
    LET sql == Strip(text) IN
    IF StartsWithFence(sql)
    THEN Strip(JoinLines(SelectSeq(SplitLines(sql), KeepLine)))
    ELSE Strip(sql)

---------------------------------------------------------------------------
(* The store behind `conn`: table AdSales(date, item_id, ad_sales) *)

IntCell(v) == [t |-> "int", v |-> v]
TextCell(v) == [t |-> "text", v |-> v]
NullCell == [t |-> "null", v |-> "None"]

TableColumns == <<"date", "item_id", "ad_sales">>

Row1 == <<TextCell("2025-06-01"), IntCell("1"), IntCell("10")>>
Row2 == <<TextCell("2025-06-02"), IntCell("2"), IntCell("20")>>
RowNull == <<TextCell("2025-06-03"), IntCell("3"), NullCell>>
RowText == <<TextCell("2025-06-04"), IntCell("4"), TextCell("n/a")>>

InitialStore == <<Row1, Row2>>
Stores == {<<>>, <<Row1, Row2>>, <<RowNull>>, <<Row1, RowNull>>, <<Row1, RowText>>}

Select(cols, where) == [kind |-> "select", cols |-> cols, where |-> where, msg |-> ""]
Fault(msg) == [kind |-> "fault", cols |-> <<>>, where |-> FALSE, msg |-> msg]
NoColumns(kind) == [kind |-> kind, cols |-> <<>>, where |-> FALSE, msg |-> ""]

(* What the engine makes of one statement text *)
Meaning(t) ==
    CASE t = SelChart -> Select(<<1, 3>>, TRUE)
      [] t = SelOne   -> Select(<<3>>, TRUE)
      [] t = SelText  -> Select(<<2, 1>>, TRUE)
      [] t = SelAll   -> Select(<<1, 2, 3>>, TRUE)
      [] t = SelNone  -> Select(<<1, 3>>, FALSE)
      [] t = Bad      -> Fault("near \"SELEKT\": syntax error")
      [] t = NoTable  -> Fault("no such table: Nope")
      [] t = Del      -> NoColumns("delete")
      [] OTHER        -> Fault("near \"sql\": syntax error")

(* What the engine makes of a query text: blank text is accepted and does   *)
(* nothing, one statement is run, anything else is refused.                 *)
Prepare(query) ==
    LET t == Strip(query) IN
    IF t = <<>> THEN NoColumns("empty")
    ELSE IF Len(t) = 1 THEN Meaning(t[1])
    ELSE IF \E i \in 1..Len(t) : t[i] = FENCE THEN Fault("unrecognized token")
    ELSE Fault("near \"SELECT\": syntax error")

Project(row, cols) == [j \in 1..Len(cols) |-> row[cols[j]]]

RowsOf(stmt, table) ==
    IF stmt.kind = "select" /\ stmt.where
    THEN [i \in 1..Len(table) |-> Project(table[i], stmt.cols)]
    ELSE <<>>

ColumnNames(stmt) == [j \in 1..Len(stmt.cols) |-> TableColumns[stmt.cols[j]]]

---------------------------------------------------------------------------
(* execute_sql, lines 66-74 *)

NoResult == [type |-> "none", columns |-> <<>>, rows |-> <<>>, text |-> <<>>]
DataFrame(rows, columns) ==
    [type |-> "DataFrame", columns |-> columns, rows |-> rows, text |-> <<>>]
ErrorStr(msg) ==
    [type |-> "str", columns |-> <<>>, rows |-> <<>>, text |-> <<"Error: ", msg>>]

isDataFrame(result) == result.type = "DataFrame"

EngineError(msg) == [kind |-> "sqlite3.Error", msg |-> msg]
TypeError(msg) == [kind |-> "TypeError", msg |-> msg]

CaughtOnlyEngineFaults(exc) == exc.kind = "sqlite3.Error"

(* `except Exception`: every exception the body can raise is one *)
Caught(exc) == exc.kind \in {"sqlite3.Error", "TypeError"}

NoCall ==
    [pc |-> "none", query |-> <<>>, stmt |-> NoColumns("empty"), described |-> FALSE,
     snap |-> <<>>, rows |-> <<>>, result |-> NoResult, fault |-> ""]

NewCall(query) == [NoCall EXCEPT !.pc = "execute", !.query = query]

Raise(c, exc) ==
    IF Caught(exc)
    THEN [c EXCEPT !.pc = "returned", !.result = ErrorStr(exc.msg)]
    ELSE [c EXCEPT !.pc = "raised"]

(* line 69: cursor.execute(query), on the table as it stands *)
CursorExecute(c, table) ==
    LET stmt == Prepare(c.query) IN
    IF stmt.kind = "fault"
    THEN Raise([c EXCEPT !.stmt = stmt, !.fault = stmt.msg], EngineError(stmt.msg))
    ELSE [c EXCEPT !.pc = "fetchall", !.stmt = stmt, !.snap = table,
                   !.described = (stmt.kind = "select")]

StoreAfterExecute(c, table) ==
    IF Prepare(c.query).kind = "delete" THEN <<>> ELSE table

(* line 70: cursor.fetchall(), reading the table `seen` *)
CursorFetchall(c, seen) ==
    [c EXCEPT !.pc = "description", !.rows = RowsOf(c.stmt, seen)]

(* lines 71-72: the column names from cursor.description, then the DataFrame *)
BuildFrame(c) ==
    IF c.described
    THEN [c EXCEPT !.pc = "returned", !.result = DataFrame(c.rows, ColumnNames(c.stmt))]
    ELSE Raise(c, TypeError("'NoneType' object is not iterable"))

---------------------------------------------------------------------------
(* plot_if_possible, lines 77-104 *)

is_numeric_dtype(df, j) ==
    /\ df.rows # <<>>
    /\ \A i \in 1..Len(df.rows) : df.rows[i][j].t \in {"int", "null"}
    /\ \E i \in 1..Len(df.rows) : df.rows[i][j].t = "int"

AsStr(cell) == cell.v

Figure(owner) ==
    [sub |-> owner, title |-> <<>>, xs |-> <<>>, ys |-> <<>>, xlabel |-> "", ylabel |-> ""]

clear_plot_frame(frame) == <<>>

DrawnFigure(df, owner) ==
    LET fig == Figure(owner) IN
    IF Len(df.columns) = 2
    THEN IF is_numeric_dtype(df, 2)
         THEN [fig EXCEPT !.xs = [i \in 1..Len(df.rows) |-> AsStr(df.rows[i][1])],
                          !.ys = [i \in 1..Len(df.rows) |-> df.rows[i][2]],
                          !.title = <<df.columns[2], " by ", df.columns[1]>>,
                          !.xlabel = df.columns[1],
                          !.ylabel = df.columns[2]]
         ELSE fig
    ELSE IF Len(df.columns) = 1 /\ is_numeric_dtype(df, 1)
         THEN [fig EXCEPT !.xs = <<df.columns[1]>>,
                          !.ys = <<df.rows[1][1]>>,
                          !.title = <<df.columns[1]>>]
         ELSE fig

plot_if_possible_keeps_old(df, owner, frame) ==
    IF isDataFrame(df) /\ df.rows # <<>>
    THEN frame \o <<DrawnFigure(df, owner)>>
    ELSE frame

plot_if_possible(df, owner, frame) ==
    LET cleared == clear_plot_frame(frame) IN
    IF isDataFrame(df) /\ df.rows # <<>>
    THEN cleared \o <<DrawnFigure(df, owner)>>
    ELSE cleared

---------------------------------------------------------------------------
(* One call on chosen input: question_to_sql on a response text, or        *)
(* execute_sql on a query text followed by the caller's branch on its      *)
(* result (lines 127-133 without the typing).                              *)

SeqsUpTo(S, n) == UNION {[1..k -> S] : k \in 0..n}

SynthAlphabet == {FENCE, TAG, SP, NL, SelChart}
QueryAlphabet == StatementTexts \cup {FENCE, SP}

OldFigure == [Figure(0) EXCEPT !.title = <<"old">>]

UnitOff == [mode |-> "off", pc |-> "off", text |-> <<>>, sql |-> <<>>, call |-> NoCall]

FrontEndsIdle ==
    /\ entry = <<>>
    /\ transcript = <<>>
    /\ stack = <<>>
    /\ finished = <<>>
    /\ nextSub = 1
    /\ http = [h \in {} |-> NoCall]

InitSynth ==
    /\ FrontEndsIdle
    /\ store = InitialStore
    /\ plotFrame = <<>>
    /\ \E r \in SeqsUpTo(SynthAlphabet, MaxRespLen) :
          unit = [UnitOff EXCEPT !.mode = "synth", !.pc = "call", !.text = r]

SynthReturn ==
    /\ unit.mode = "synth" /\ unit.pc = "call"
    /\ unit' = [unit EXCEPT !.pc = "done", !.sql = question_to_sql(unit.text)]
    /\ UNCHANGED <<store, entry, transcript, plotFrame, stack, finished, nextSub, http>>

SpecSynth == InitSynth /\ [][SynthReturn]_vars

InitExec ==
    /\ FrontEndsIdle
    /\ store \in Stores
    /\ plotFrame \in {<<>>, <<OldFigure>>}
    /\ \E q \in SeqsUpTo(QueryAlphabet, MaxQueryLen) :
          unit = [UnitOff EXCEPT !.mode = "exec", !.pc = "call", !.text = q,
                                 !.call = NewCall(q)]

UnitExecute ==
    /\ unit.mode = "exec" /\ unit.call.pc = "execute"
    /\ unit' = [unit EXCEPT !.call = CursorExecute(unit.call, store)]
    /\ store' = StoreAfterExecute(unit.call, store)
    /\ UNCHANGED <<entry, transcript, plotFrame, stack, finished, nextSub, http>>

UnitFetchall ==
    /\ unit.mode = "exec" /\ unit.call.pc = "fetchall"
    /\ \E seen \in {unit.call.snap, store} :
          unit' = [unit EXCEPT !.call = CursorFetchall(unit.call, seen)]
    /\ UNCHANGED <<store, entry, transcript, plotFrame, stack, finished, nextSub, http>>

UnitDescription ==
    /\ unit.mode = "exec" /\ unit.call.pc = "description"
    /\ unit' = [unit EXCEPT !.call = BuildFrame(unit.call)]
    /\ UNCHANGED <<store, entry, transcript, plotFrame, stack, finished, nextSub, http>>

UnitPresent ==
    /\ unit.mode = "exec" /\ unit.pc = "call" /\ unit.call.pc = "returned"
    /\ IF isDataFrame(unit.call.result)
       THEN /\ plotFrame' = plot_if_possible(unit.call.result, 1, plotFrame)
            /\ unit' = [unit EXCEPT !.pc = "plotted"]
       ELSE /\ plotFrame' = plotFrame
            /\ unit' = [unit EXCEPT !.pc = "error"]
    /\ UNCHANGED <<store, entry, transcript, stack, finished, nextSub, http>>

NextExec == UnitExecute \/ UnitFetchall \/ UnitDescription \/ UnitPresent

SpecExec == InitExec /\ [][NextExec]_vars

---------------------------------------------------------------------------
(* The running program: the Tk thread and the HTTP worker threads          *)

Q1 == "total ad spend"
Q2 == "ad sales by date"

DeskInputs == {<<Q1>>}
HttpQuestions == {<<Q1>>, <<Q2>>}
GenResponses == {<<SelChart>>, <<FENCE, TAG, NL, SelOne, NL, FENCE>>, <<Bad>>, <<Del>>}
HttpThreads == 1..MaxRequests

TypingPcs == {"typeSql", "typeHeader", "typeResult", "typeError"}

Part(pc) ==
    CASE pc = "typeSql" -> "sql"
      [] pc = "typeHeader" -> "header"
      [] pc = "typeResult" -> "result"
      [] pc = "typeError" -> "error"
      [] OTHER -> "question"

Shown(sub, part, text) ==
    [k \in 1..Len(text) |-> [sub |-> sub, part |-> part, ch |-> text[k]]]

(* DataFrame.to_string(index=False): a header line and one line per row;   *)
(* one token per line.                                                     *)
to_string(df) ==
    IF df.rows = <<>>
    THEN <<"Empty DataFrame", df.columns, "Index: []">>
    ELSE <<df.columns>> \o
         [i \in 1..Len(df.rows) |-> [j \in 1..Len(df.columns) |-> AsStr(df.rows[i][j])]]

ColumnIndex(df, name) ==
    CHOOSE j \in 1..Len(df.columns) :
        /\ df.columns[j] = name
        /\ \A k \in (j + 1)..Len(df.columns) : df.columns[k] # name

(* DataFrame.to_dict(orient="records") *)
to_dict_records(df) ==
    [i \in 1..Len(df.rows) |->
        [name \in {df.columns[j] : j \in 1..Len(df.columns)} |->
            df.rows[i][ColumnIndex(df, name)]]]

Activation(sub, question) ==
    [sub |-> sub, pc |-> "qshown", question |-> question, sql |-> <<>>, call |-> NoCall,
     text |-> <<>>, i |-> 0, gen |-> 0, exec |-> 0]

NoResponse == [status |-> 0, body |-> [question |-> <<>>]]

Worker ==
    [pc |-> "idle", question |-> <<>>, sql |-> <<>>, call |-> NoCall,
     gen |-> 0, exec |-> 0, response |-> NoResponse]

Init ==
    /\ store = InitialStore
    /\ entry = <<>>
    /\ transcript = <<>>
    /\ plotFrame = <<>>
    /\ stack = <<>>
    /\ finished = <<>>
    /\ nextSub = 1
    /\ http = [t \in HttpThreads |-> Worker]
    /\ unit = UnitOff

(* Questions put to the program so far: desktop submissions and POST /ask *)
(* requests, each request on a worker thread of its own.                  *)
Asked == (nextSub - 1) + Cardinality({t \in HttpThreads : http[t].pc # "idle"})

Top == stack[Len(stack)]
SetTop(f) == [stack EXCEPT ![Len(stack)] = f]
Popped == SubSeq(stack, 1, Len(stack) - 1)
Ended(f, outcome) == [sub |-> f.sub, outcome |-> outcome, gen |-> f.gen, exec |-> f.exec]

(* The Tk thread runs callbacks when it is in mainloop (line 210) or inside *)
(* result_text.update() (lines 111 and 122).                                *)
Dispatching ==
    IF stack = <<>> THEN TRUE
    ELSE IF Top.pc = "qshown" THEN TRUE
    ELSE Top.pc \in TypingPcs /\ Top.i >= 1

TypingDone == stack # <<>> /\ Top.pc \in TypingPcs /\ Top.i = Len(Top.text)

(* the user edits question_entry (line 160) *)
TypeQuestion(q) ==
    /\ Dispatching
    /\ entry # q
    /\ entry' = q
    /\ UNCHANGED <<store, transcript, plotFrame, stack, finished, nextSub, http, unit>>

(* ask_question, lines 116-119: a blank question *)
AskBlank ==
    /\ Dispatching
    /\ Asked < MaxRequests
    /\ Strip(entry) = <<>>
    /\ finished' = Append(finished, [sub |-> nextSub, outcome |-> "blank", gen |-> 0, exec |-> 0])
    /\ nextSub' = nextSub + 1
    /\ UNCHANGED <<store, entry, transcript, plotFrame, stack, http, unit>>

(* ask_question, lines 116-122: the Ask button's command runs *)
AskSubmit ==
    /\ Dispatching
    /\ Asked < MaxRequests
    /\ Strip(entry) # <<>>
    /\ transcript' = transcript \o Shown(nextSub, "question", <<"Question: ">> \o entry \o <<NL>>)
    /\ stack' = Append(stack, Activation(nextSub, entry))
    /\ nextSub' = nextSub + 1
    /\ UNCHANGED <<store, entry, plotFrame, finished, http, unit>>

RaiseFromGenerateThenRetry(a) == [a EXCEPT !.gen = a.gen + 1]

(* model.generate_content raises (line 59): nothing up to the front end     *)
(* catches it                                                               *)
RaiseFromGenerate(a) == [a EXCEPT !.gen = a.gen + 1, !.pc = "raised"]

ReturnFromGenerate(a, resp) ==
    [a EXCEPT !.gen = a.gen + 1, !.sql = question_to_sql(resp)]

(* line 124, then the start of line 125 *)
Generate(resp) ==
    /\ stack # <<>> /\ Top.pc = "qshown"
    /\ LET f == ReturnFromGenerate(Top, resp) IN
       stack' = SetTop([f EXCEPT !.pc = "typeSql", !.i = 0,
                                 !.text = <<"SQL Query: ">> \o f.sql \o <<NL>>])
    /\ UNCHANGED <<store, entry, transcript, plotFrame, finished, nextSub, http, unit>>

GenerateFails ==
    /\ stack # <<>> /\ Top.pc = "qshown"
    /\ LET f == RaiseFromGenerate(Top) IN
       IF f.pc = "raised"
       THEN /\ stack' = Popped
            /\ finished' = Append(finished, Ended(f, "genfail"))
       ELSE /\ stack' = SetTop(f)
            /\ finished' = finished
    /\ UNCHANGED <<store, entry, transcript, plotFrame, nextSub, http, unit>>

(* stream_insert, lines 108-112: one character, then update() *)
TypeChar ==
    /\ stack # <<>> /\ Top.pc \in TypingPcs /\ Top.i < Len(Top.text)
    /\ transcript' = Append(transcript,
                            [sub |-> Top.sub, part |-> Part(Top.pc), ch |-> Top.text[Top.i + 1]])
    /\ stack' = SetTop([Top EXCEPT !.i = Top.i + 1])
    /\ UNCHANGED <<store, entry, plotFrame, finished, nextSub, http, unit>>

(* line 127 into execute_sql, line 69 *)
DeskExecute ==
    /\ TypingDone /\ Top.pc = "typeSql"
    /\ stack' = SetTop([Top EXCEPT !.pc = "execute_sql", !.exec = Top.exec + 1,
                                   !.call = CursorExecute(NewCall(Top.sql), store)])
    /\ store' = StoreAfterExecute(NewCall(Top.sql), store)
    /\ UNCHANGED <<entry, transcript, plotFrame, finished, nextSub, http, unit>>

DeskFetchall ==
    /\ stack # <<>> /\ Top.pc = "execute_sql" /\ Top.call.pc = "fetchall"
    /\ \E seen \in {Top.call.snap, store} :
          stack' = SetTop([Top EXCEPT !.call = CursorFetchall(Top.call, seen)])
    /\ UNCHANGED <<store, entry, transcript, plotFrame, finished, nextSub, http, unit>>

DeskDescription ==
    /\ stack # <<>> /\ Top.pc = "execute_sql" /\ Top.call.pc = "description"
    /\ stack' = SetTop([Top EXCEPT !.call = BuildFrame(Top.call)])
    /\ UNCHANGED <<store, entry, transcript, plotFrame, finished, nextSub, http, unit>>

(* lines 128-129 and 132-133: which text is typed next *)
DeskBranch ==
    /\ stack # <<>> /\ Top.pc = "execute_sql" /\ Top.call.pc = "returned"
    /\ stack' = SetTop(IF isDataFrame(Top.call.result)
                       THEN [Top EXCEPT !.pc = "typeHeader", !.i = 0, !.text = <<"Result:\n">>]
                       ELSE [Top EXCEPT !.pc = "typeError", !.i = 0,
                                        !.text = <<"Error:\n">> \o Top.call.result.text])
    /\ UNCHANGED <<store, entry, transcript, plotFrame, finished, nextSub, http, unit>>

(* line 130 *)
DeskShowResult ==
    /\ TypingDone /\ Top.pc = "typeHeader"
    /\ stack' = SetTop([Top EXCEPT !.pc = "typeResult", !.i = 0,
                                   !.text = to_string(Top.call.result)])
    /\ UNCHANGED <<store, entry, transcript, plotFrame, finished, nextSub, http, unit>>

(* lines 131 and 134 *)
DeskFinishResult ==
    /\ TypingDone /\ Top.pc = "typeResult"
    /\ plotFrame' = plot_if_possible(Top.call.result, Top.sub, plotFrame)
    /\ entry' = <<>>
    /\ stack' = Popped
    /\ finished' = Append(finished, Ended(Top, "result"))
    /\ UNCHANGED <<store, transcript, nextSub, http, unit>>

(* line 134 after the error branch *)
DeskFinishError ==
    /\ TypingDone /\ Top.pc = "typeError"
    /\ entry' = <<>>
    /\ stack' = Popped
    /\ finished' = Append(finished, Ended(Top, "error"))
    /\ UNCHANGED <<store, transcript, plotFrame, nextSub, http, unit>>

(* POST /ask arrives at a worker thread (lines 180-181) *)
HttpReceive(t, q) ==
    /\ http[t].pc = "idle"
    /\ Asked < MaxRequests
    /\ \A u \in 1..(t - 1) : http[u].pc # "idle"
    /\ http' = [http EXCEPT ![t] = [Worker EXCEPT !.pc = "generate", !.question = q]]
    /\ UNCHANGED <<store, entry, transcript, plotFrame, stack, finished, nextSub, unit>>

(* line 182 *)
HttpGenerate(t, resp) ==
    /\ http[t].pc = "generate"
    /\ LET w == ReturnFromGenerate(http[t], resp) IN
       http' = [http EXCEPT ![t] = [w EXCEPT !.pc = "execute_sql", !.call = NewCall(w.sql)]]
    /\ UNCHANGED <<store, entry, transcript, plotFrame, stack, finished, nextSub, unit>>

InternalServerError == [status |-> 500, body |-> [question |-> <<>>]]

HttpGenerateFails(t) ==
    /\ http[t].pc = "generate"
    /\ LET w == RaiseFromGenerate(http[t]) IN
       http' = [http EXCEPT ![t] =
                   IF w.pc = "raised"
                   THEN [w EXCEPT !.pc = "failed", !.response = InternalServerError]
                   ELSE w]
    /\ UNCHANGED <<store, entry, transcript, plotFrame, stack, finished, nextSub, unit>>

(* line 183 into execute_sql *)
HttpExecute(t) ==
    /\ http[t].pc = "execute_sql" /\ http[t].call.pc = "execute"
    /\ http' = [http EXCEPT ![t].call = CursorExecute(http[t].call, store),
                            ![t].exec = http[t].exec + 1]
    /\ store' = StoreAfterExecute(http[t].call, store)
    /\ UNCHANGED <<entry, transcript, plotFrame, stack, finished, nextSub, unit>>

HttpFetchall(t) ==
    /\ http[t].pc = "execute_sql" /\ http[t].call.pc = "fetchall"
    /\ \E seen \in {http[t].call.snap, store} :
          http' = [http EXCEPT ![t].call = CursorFetchall(http[t].call, seen)]
    /\ UNCHANGED <<store, entry, transcript, plotFrame, stack, finished, nextSub, unit>>

HttpDescription(t) ==
    /\ http[t].pc = "execute_sql" /\ http[t].call.pc = "description"
    /\ http' = [http EXCEPT ![t].call = BuildFrame(http[t].call)]
    /\ UNCHANGED <<store, entry, transcript, plotFrame, stack, finished, nextSub, unit>>

api_ask_hides_error(question, sql, result) ==
    [question |-> question, sql |-> sql,
     result |-> IF isDataFrame(result) THEN to_dict_records(result) ELSE <<>>]

(* api_ask, lines 184-195: the returned body *)
api_ask(question, sql, result) ==
    IF isDataFrame(result)
    THEN [question |-> question, sql |-> sql, result |-> to_dict_records(result)]
    ELSE [question |-> question, sql |-> sql, error |-> result.text]

HttpRespond(t) ==
    /\ http[t].pc = "execute_sql" /\ http[t].call.pc = "returned"
    /\ http' = [http EXCEPT ![t].pc = "responded",
                            ![t].response =
                                [status |-> 200,
                                 body |-> api_ask(http[t].question, http[t].sql,
                                                  http[t].call.result)]]
    /\ UNCHANGED <<store, entry, transcript, plotFrame, stack, finished, nextSub, unit>>

Next ==
    \/ \E q \in DeskInputs : TypeQuestion(q)
    \/ AskBlank
    \/ AskSubmit
    \/ \E resp \in GenResponses : Generate(resp)
    \/ GenerateFails
    \/ TypeChar
    \/ DeskExecute
    \/ DeskFetchall
    \/ DeskDescription
    \/ DeskBranch
    \/ DeskShowResult
    \/ DeskFinishResult
    \/ DeskFinishError
    \/ \E t \in HttpThreads, q \in HttpQuestions : HttpReceive(t, q)
    \/ \E t \in HttpThreads, resp \in GenResponses : HttpGenerate(t, resp)
    \/ \E t \in HttpThreads : HttpGenerateFails(t)
    \/ \E t \in HttpThreads : HttpExecute(t)
    \/ \E t \in HttpThreads : HttpFetchall(t)
    \/ \E t \in HttpThreads : HttpDescription(t)
    \/ \E t \in HttpThreads : HttpRespond(t)

Spec == Init /\ [][Next]_vars

---------------------------------------------------------------------------
(* Claims about execute_sql, plot_if_possible and question_to_sql          *)

UnitResult == unit.call.result

(* C1: execute_sql never raises past its boundary: whatever the query text, *)
(* the call ends by returning, and what it returns is either a DataFrame or *)
(* an error string, which is what the caller's isinstance branch needs.     *)
C1_ExecuteSqlNeverRaises ==
    unit.mode = "exec" =>
        /\ unit.call.pc # "raised"
        /\ unit.call.pc = "returned" => UnitResult.type \in {"DataFrame", "str"}
        /\ unit.pc = "plotted" => isDataFrame(UnitResult)
        /\ unit.pc = "error" => UnitResult.type = "str" /\ UnitResult.text[1] = "Error: "

C1_Witness_NoColumnsReturnsError ==
    /\ unit.pc = "error"
    /\ unit.call.stmt.kind = "delete"
    /\ UnitResult.type = "str"

(* C2: execute_sql returns a Result Set with all rows and the column names  *)
(* whenever the store ran the statement without a fault, and an error only  *)
(* when the store raised a fault, the error then carrying the store's own   *)
(* message; also for statements that return no rows or no columns.          *)
C2_ResultSetUnlessStoreFault ==
    (unit.mode = "exec" /\ unit.call.pc = "returned") =>
        IF unit.call.fault = ""
        THEN /\ isDataFrame(UnitResult)
             /\ UnitResult.columns = ColumnNames(unit.call.stmt)
             /\ Len(UnitResult.rows) = Len(unit.call.rows)
        ELSE UnitResult = ErrorStr(unit.call.fault)

ExpectedTitle(df) ==
    CASE Len(df.columns) = 2 /\ is_numeric_dtype(df, 2) ->
            <<df.columns[2], " by ", df.columns[1]>>
      [] Len(df.columns) = 1 /\ is_numeric_dtype(df, 1) -> <<df.columns[1]>>
      [] OTHER -> <<>>

C4_OnlyPureMarkerLinesDropped ==
    (unit.mode = "synth" /\ unit.pc = "done") =>
        LET t == Strip(unit.text) IN
        unit.sql = IF StartsWithFence(t)
                   THEN Strip(JoinLines(SelectSeq(SplitLines(t), KeepLineUnlessPureMarker)))
                   ELSE t

---------------------------------------------------------------------------
(* Claims about the running program                                        *)

Last(seq) == seq[Len(seq)]

(* C5: every POST /ask request that api_ask answers gets a body echoing the *)
(* question and the synthesized sql, with exactly one of the keys "result"  *)
(* (one record per row, in row order, when execute_sql gave a DataFrame)    *)
(* and "error" (the executor's error text otherwise), under the same        *)
(* success status.                                                          *)
C5_AskBodyShape ==
    \A t \in HttpThreads :
        http[t].pc = "responded" =>
            LET w == http[t]
                b == http[t].response.body
                r == http[t].call.result
            IN  /\ w.response.status = 200
                /\ b.question = w.question
                /\ b.sql = w.sql
                /\ IF isDataFrame(r)
                   THEN /\ DOMAIN b = {"question", "sql", "result"}
                        /\ Len(b.result) = Len(r.rows)
                        /\ \A i \in 1..Len(r.rows), j \in 1..Len(r.columns) :
                              b.result[i][r.columns[j]] = r.rows[i][j]
                   ELSE /\ DOMAIN b = {"question", "sql", "error"}
                        /\ b.error = r.text

C5_Witness_ResultAndError ==
    \E t, u \in HttpThreads :
        /\ http[t].pc = "responded" /\ http[u].pc = "responded"
        /\ DOMAIN http[t].response.body = {"question", "sql", "result"}
        /\ Len(http[t].response.body.result) = 2
        /\ DOMAIN http[u].response.body = {"question", "sql", "error"}
        /\ http[t].question # http[u].question

(* C6: when the generation call fails, nothing is executed against the      *)
(* store and the failure reaches the caller as an error: the desktop writes *)
(* the error text into the transcript, the HTTP surface answers the client. *)
C6_GenerationFailureShown ==
    /\ \A k \in 1..Len(finished) :
          finished[k].outcome = "genfail" =>
              /\ finished[k].exec = 0
              /\ \E i \in 1..Len(transcript) :
                    transcript[i].sub = finished[k].sub /\ transcript[i].part = "error"
    /\ \A t \in HttpThreads :
          http[t].pc = "failed" => http[t].exec = 0 /\ http[t].response.status # 0

IsPrefix(a, b) == Len(a) <= Len(b) /\ SubSeq(b, 1, Len(a)) = a

(* C7: the transcript only grows, and a desktop submission that ends in a   *)
(* result or in an error leaves no chart of an earlier submission in the    *)
(* plotting area.                                                           *)
C7_TranscriptGrowsPlotRedrawn ==
    [][/\ IsPrefix(transcript, transcript')
       /\ (Len(finished') = Len(finished) + 1 /\ Last(finished').outcome \in {"result", "error"})
             => \A i \in 1..Len(plotFrame') : plotFrame'[i].sub >= Last(finished').sub]_vars

InsideExecuteSql(c) == c.pc \in {"fetchall", "description"}

(* C8: the execute / fetchall / description steps of one execute_sql call   *)
(* never interleave with those of another call on the shared connection.    *)
C8_ConnectionAccessSerialized ==
    Cardinality({t \in HttpThreads : InsideExecuteSql(http[t].call)})
        + Cardinality({k \in 1..Len(stack) : InsideExecuteSql(stack[k].call)}) <= 1

(* C9: every question a front end accepts triggers exactly one generation   *)
(* call and at most one store execution (none after a failed generation),   *)
(* nothing is repeated, and a blank desktop submission triggers neither.    *)
C9_OneGenerationAtMostOneExecution ==
    /\ \A k \in 1..Len(finished) :
          LET e == finished[k] IN
          CASE e.outcome = "blank" -> e.gen = 0 /\ e.exec = 0
            [] e.outcome = "genfail" -> e.gen = 1 /\ e.exec = 0
            [] OTHER -> e.gen = 1 /\ e.exec = 1
    /\ \A k \in 1..Len(stack) :
          /\ stack[k].gen = (IF stack[k].pc = "qshown" THEN 0 ELSE 1)
          /\ stack[k].exec <= 1
    /\ \A t \in HttpThreads :
          CASE http[t].pc = "responded" -> http[t].gen = 1 /\ http[t].exec = 1
            [] http[t].pc = "failed" -> http[t].gen = 1 /\ http[t].exec = 0
            [] http[t].pc \in {"idle", "generate"} -> http[t].gen = 0 /\ http[t].exec = 0
            [] OTHER -> http[t].gen = 1 /\ http[t].exec <= 1

C9_Witness_FailedGenerationNotRepeated ==
    /\ \E k \in 1..Len(finished) : finished[k].outcome = "genfail" /\ finished[k].gen = 1
    /\ \E t \in HttpThreads : http[t].pc = "responded" /\ http[t].exec = 1

(* C10: at most one desktop submission is in progress at any time, so the   *)
(* transcript entries of one submission are contiguous, never interleaved   *)
(* with those of another.                                                   *)
C10_OneSubmissionAtATime ==
    /\ Len(stack) <= 1
    /\ \A i, j, k \in 1..Len(transcript) :
          (i < j /\ j < k /\ transcript[i].sub = transcript[k].sub)
              => transcript[j].sub = transcript[i].sub

===========================================================================
